---- MODULE Spec2Model ----
(***************************************************************************)
(* A model of the account REST service: the mux route table of            *)
(* APIServer.Run, the handlers of api.go, the error wrapper                *)
(* makeHTTPHandlerFunc, and the PostgresStorage adapter over the          *)
(* "accounts" table (id SERIAL PRIMARY KEY, create_at DEFAULT             *)
(* CURRENT_TIMESTAMP).  One HTTP request is served per step.              *)
(***************************************************************************)
EXTENDS Integers, Sequences, FiniteSets, TLC

(* ------------------------------ bounds -------------------------------- *)

\* number of values the SERIAL sequence of accounts.id may hand out
MaxId == 3

(* --------------------------- input alphabets -------------------------- *)

FirstNames == {"Ann"}
LastNames == {"Lee"}
\* account numbers the constructor may draw
Numbers == {7}
\* readings of CURRENT_TIMESTAMP / time.Now; ZeroTime is Go's zero time.Time
ZeroTime == 0
Times == {10}
Methods == {"GET", "POST", "DELETE", "PUT"}
Digit == {"0", "1", "2", "3", "4", "5", "6", "7", "8", "9"}

(* ------------------------------ errors -------------------------------- *)

\* an error value is its message: a format text and its arguments
\* (fmt.Errorf / fmt.Sprintf); NoErr is the nil error
NoErr == [text |-> "", n |-> 0, s |-> <<>>]
Errorf(text, n, s) == [text |-> text, n |-> n, s |-> s]

\* the error a failed database statement hands back (driver text)
DriverErr == Errorf("pq: statement failed", 0, <<>>)

(* ----------------------------- the account ---------------------------- *)

\* the nil *Account
NilAccount ==
  [ID |-> -1, FirstName |-> "", LastName |-> "", Number |-> 0,
   Balance |-> 0, CreatedAt |-> ZeroTime]

\* NewAccount: a zero-balance account for the two names.  The constructor's
\* own choices (the account number, and what it puts in ID and CreatedAt
\* before storage sees the record) are its arguments.
NewAccount(firstName, lastName, number, id, createdAt) ==
  [ID |-> id, FirstName |-> firstName, LastName |-> lastName,
   Number |-> number, Balance |-> 0, CreatedAt |-> createdAt]

(* ------------------------- the storage adapter ------------------------ *)

\* row.Scan in column order: id, first_name, last_name, number, balance,
\* create_at
scanIntoAccount(row) ==
  [ID |-> row.id, FirstName |-> row.first_name, LastName |-> row.last_name,
   Number |-> row.number, Balance |-> row.balance, CreatedAt |-> row.create_at]

\* INSERT INTO accounts (first_name, last_name, number, balance): id comes
\* from the SERIAL sequence, create_at from the column default `now`.
\* The account argument is not written to.
InsertRow(db, account, now) ==
  [rows |-> db.rows @@
            ((db.serial + 1) :>
               [id |-> db.serial + 1, first_name |-> account.FirstName,
                last_name |-> account.LastName, number |-> account.Number,
                balance |-> account.Balance, create_at |-> now]),
   serial |-> db.serial + 1]

CreateAccount(db, account, ok, now) ==
  IF ~ok
    THEN [db |-> db, err |-> DriverErr]
    ELSE [db |-> InsertRow(db, account, now), err |-> NoErr]

\* variant: the DELETE statement matches no row
DeleteRowMatchesNone(db, id) == db

\* DELETE FROM accounts WHERE id = $1: the affected-row count is not read
DeleteRow(db, id) ==
  [db EXCEPT !.rows = [i \in (DOMAIN db.rows) \ {id} |-> db.rows[i]]]

\* variant: a delete that affected no row is reported like a failed lookup
DeleteAccountChecksRows(db, id, ok) ==
  IF ~ok \/ id \notin DOMAIN db.rows
    THEN [db |-> db, err |-> Errorf("account %d not found", id, <<>>)]
    ELSE [db |-> DeleteRow(db, id), err |-> NoErr]

DeleteAccount(db, id, ok) ==
  IF ~ok
    THEN [db |-> db, err |-> Errorf("account %d not found", id, <<>>)]
    ELSE [db |-> DeleteRow(db, id), err |-> NoErr]

\* variant: the update is carried out on the row of the account's id
UpdateAccountWrites(db, account) ==
  [db |-> IF account.ID \in DOMAIN db.rows
            THEN [db EXCEPT !.rows[account.ID].balance = account.Balance]
            ELSE db,
   err |-> NoErr]

UpdateAccount(db, account) == [db |-> db, err |-> NoErr]

\* the orders in which SELECT * FROM accounts may return the rows
RowOrders(db) ==
  LET ids == DOMAIN db.rows
      n == Cardinality(ids)
  IN {o \in [1..n -> ids] : \A i, j \in 1..n : o[i] = o[j] => i = j}

\* variant: the scan loop returns after the first row
GetAccountsFirstRow(db, ok, order) ==
  IF ~ok
    THEN [accounts |-> <<>>, err |-> DriverErr]
    ELSE [accounts |-> [i \in 1..(IF Len(order) > 0 THEN 1 ELSE 0) |->
                          scanIntoAccount(db.rows[order[i]])],
          err |-> NoErr]

GetAccounts(db, ok, order) ==
  IF ~ok
    THEN [accounts |-> <<>>, err |-> DriverErr]
    ELSE [accounts |-> [i \in 1..Len(order) |-> scanIntoAccount(db.rows[order[i]])],
          err |-> NoErr]

\* variant: an empty result set is returned as the nil account, without error
GetAccountByIdNoError(db, id, ok) ==
  IF ~ok
    THEN [account |-> NilAccount, err |-> DriverErr]
    ELSE IF id \in DOMAIN db.rows
      THEN [account |-> scanIntoAccount(db.rows[id]), err |-> NoErr]
      ELSE [account |-> NilAccount, err |-> NoErr]

GetAccountById(db, id, ok) ==
  IF ~ok
    THEN [account |-> NilAccount, err |-> DriverErr]
    ELSE IF id \in DOMAIN db.rows
      THEN [account |-> scanIntoAccount(db.rows[id]), err |-> NoErr]
      ELSE [account |-> NilAccount,
            err |-> Errorf("account %d not found", id, <<>>)]

(* -------------------------------- JSON -------------------------------- *)

JStr(s) == [t |-> "str", s |-> s, n |-> 0]
JNum(n) == [t |-> "num", s |-> "", n |-> n]

NoFields == [k \in {} |-> JNum(0)]
\* a request body: a JSON object, text that is not JSON, or nothing at all
JObject(fields) == [kind |-> "object", fields |-> fields]
BodyMalformed == [kind |-> "malformed", fields |-> NoFields]
BodyEmpty == [kind |-> "empty", fields |-> NoFields]

\* what json.Decoder.Decode reports for a body that is not one JSON value
SyntaxErr(body) ==
  IF body.kind = "empty" THEN Errorf("EOF", 0, <<>>)
  ELSE IF body.kind = "malformed"
    THEN Errorf("invalid character looking for beginning of value", 0, <<>>)
    ELSE NoErr

\* the struct fields whose JSON value has the wrong type
Mistyped(body, strKeys, numKeys) ==
  {k \in DOMAIN body.fields :
     \/ k \in strKeys /\ body.fields[k].t # "str"
     \/ k \in numKeys /\ body.fields[k].t # "num"}

TypeErr(body, strKeys, numKeys) ==
  IF Mistyped(body, strKeys, numKeys) # {}
    THEN Errorf("json: cannot unmarshal into Go struct field", 0, <<>>)
    ELSE NoErr

StrField(body, k) == IF k \in DOMAIN body.fields THEN body.fields[k].s ELSE ""
NumField(body, k) == IF k \in DOMAIN body.fields THEN body.fields[k].n ELSE 0

\* json.NewDecoder(r.Body).Decode(accReq): unknown keys are dropped, absent
\* keys leave the zero value
DecodeCreateAccountRequest(body) ==
  LET e == IF SyntaxErr(body) # NoErr THEN SyntaxErr(body)
           ELSE TypeErr(body, {"firstName", "lastName"}, {})
  IN IF e # NoErr
       THEN [v |-> [FirstName |-> "", LastName |-> ""], err |-> e]
       ELSE [v |-> [FirstName |-> StrField(body, "firstName"),
                    LastName |-> StrField(body, "lastName")],
             err |-> NoErr]

DecodeTransferRequest(body) ==
  LET e == IF SyntaxErr(body) # NoErr THEN SyntaxErr(body)
           ELSE TypeErr(body, {}, {"toAccount", "amount"})
  IN IF e # NoErr
       THEN [v |-> [ToAccount |-> 0, Amount |-> 0], err |-> e]
       ELSE [v |-> [ToAccount |-> NumField(body, "toAccount"),
                    Amount |-> NumField(body, "amount")],
             err |-> NoErr]

\* json.NewEncoder(w).Encode(data), one operator per Go type written
EncodeTransferRequest(t) ==
  JObject(("toAccount" :> JNum(t.ToAccount)) @@ ("amount" :> JNum(t.Amount)))
EncodeAccount(a) == [account |-> a]
EncodeAccounts(as) == [accounts |-> as]
EncodeDeleted(id) == [deleted |-> id]
EncodeAPIError(e) == [error |-> e]

(* -------------------------- the response writer ----------------------- *)

\* status 0: no header written yet
NewResponseWriter == [status |-> 0, contentType |-> "", body |-> <<>>]

\* the first WriteHeader fixes status and headers; later ones are ignored,
\* later writes append to the body
WriteResponse(w, status, contentType, chunk) ==
  [status |-> IF w.status = 0 THEN status ELSE w.status,
   contentType |-> IF w.status = 0 THEN contentType ELSE w.contentType,
   body |-> Append(w.body, chunk)]

WriteJSON(w, status, data) == WriteResponse(w, status, "application/json", data)

\* http.Error
HttpError(w, msg, code) == WriteResponse(w, code, "text/plain", [text |-> msg])

(* ------------------------------- getId -------------------------------- *)

DigitVal(c) ==
  CASE c = "0" -> 0 [] c = "1" -> 1 [] c = "2" -> 2 [] c = "3" -> 3
    [] c = "4" -> 4 [] c = "5" -> 5 [] c = "6" -> 6 [] c = "7" -> 7
    [] c = "8" -> 8 [] c = "9" -> 9

\* the route pattern [0-9]+
IsDigits(s) == Len(s) > 0 /\ \A i \in 1..Len(s) : s[i] \in Digit

RECURSIVE StripZeros(_)
StripZeros(s) ==
  IF Len(s) > 1 /\ s[1] = "0" THEN StripZeros(Tail(s)) ELSE s

\* math.MaxInt64 = 9223372036854775807, digit by digit
MaxIntDigits ==
  <<"9", "2", "2", "3", "3", "7", "2", "0", "3", "6", "8", "5", "4", "7",
    "7", "5", "8", "0", "7">>

RECURSIVE DigitsGreater(_, _)
\* for digit strings of equal length
DigitsGreater(a, b) ==
  IF a = <<>> THEN FALSE
  ELSE IF DigitVal(a[1]) # DigitVal(b[1]) THEN DigitVal(a[1]) > DigitVal(b[1])
  ELSE DigitsGreater(Tail(a), Tail(b))

OutOfRange(s) ==
  LET t == StripZeros(s)
  IN \/ Len(t) > Len(MaxIntDigits)
     \/ Len(t) = Len(MaxIntDigits) /\ DigitsGreater(t, MaxIntDigits)

RECURSIVE DigitsValue(_)
DigitsValue(s) ==
  IF s = <<>> THEN 0
  ELSE 10 * DigitsValue(SubSeq(s, 1, Len(s) - 1)) + DigitVal(s[Len(s)])

\* strconv.Atoi on the unsigned strings the routes can deliver
Atoi(s) ==
  IF ~IsDigits(s) THEN [n |-> 0, err |-> Errorf("strconv.Atoi: invalid syntax", 0, s)]
  ELSE IF OutOfRange(s)
    THEN [n |-> 0, err |-> Errorf("strconv.Atoi: value out of range", 0, s)]
    ELSE [n |-> DigitsValue(s), err |-> NoErr]

\* getId: vars is mux.Vars(r); a missing key reads as the empty string
getId(w, vars) ==
  LET id == IF "id" \in DOMAIN vars THEN vars["id"] ELSE <<>>
      a == Atoi(id)
  IN IF a.err # NoErr
       THEN [w |-> HttpError(w, Errorf("Invalid ID: %s", 0, id), 400), id |-> -1]
       ELSE [w |-> w, id |-> a.n]

(* ------------------------------ handlers ------------------------------ *)

\* one storage call made while serving a request
Call(op, id, ok) == [op |-> op, id |-> id, ok |-> ok]

\* what a handler leaves behind: the response writer, the error it returns,
\* the database, and the storage calls it made
Outcome(w, err, database, cs) == [w |-> w, err |-> err, db |-> database, calls |-> cs]

handleGetAccounts(w, database, ok, order) ==
  LET g == GetAccounts(database, ok, order)
      cs == <<Call("GetAccounts", 0, ok)>>
  IN IF g.err # NoErr
       THEN Outcome(w, g.err, database, cs)
       ELSE Outcome(WriteJSON(w, 200, EncodeAccounts(g.accounts)), NoErr, database, cs)

\* variant: the decode error is dropped and the zero-valued request is stored
handleCreateAccountIgnoresDecode(w, body, database, ok, now, number, ctorId, ctorTime) ==
  LET d == DecodeCreateAccountRequest(body)
      acc == NewAccount(d.v.FirstName, d.v.LastName, number, ctorId, ctorTime)
      c == CreateAccount(database, acc, ok, now)
      cs == <<Call("CreateAccount", 0, ok)>>
  IN IF c.err # NoErr THEN Outcome(w, c.err, c.db, cs)
     ELSE Outcome(WriteJSON(w, 201, EncodeAccount(acc)), NoErr, c.db, cs)

handleCreateAccount(w, body, database, ok, now, number, ctorId, ctorTime) ==
  LET d == DecodeCreateAccountRequest(body)
      acc == NewAccount(d.v.FirstName, d.v.LastName, number, ctorId, ctorTime)
      c == CreateAccount(database, acc, ok, now)
      cs == <<Call("CreateAccount", 0, ok)>>
  IN IF d.err # NoErr THEN Outcome(w, d.err, database, <<>>)
     ELSE IF c.err # NoErr THEN Outcome(w, c.err, c.db, cs)
     ELSE Outcome(WriteJSON(w, 201, EncodeAccount(acc)), NoErr, c.db, cs)

handleGetAccountById(w, vars, database, ok) ==
  LET i == getId(w, vars)
      g == GetAccountById(database, i.id, ok)
      cs == <<Call("GetAccountById", i.id, ok)>>
  IN IF g.err # NoErr
       THEN Outcome(i.w, g.err, database, cs)
       ELSE Outcome(WriteJSON(i.w, 200, EncodeAccount(g.account)), NoErr, database, cs)

handleDeleteAccount(w, vars, database, ok) ==
  LET i == getId(w, vars)
      d == DeleteAccount(database, i.id, ok)
      cs == <<Call("DeleteAccount", i.id, ok)>>
  IN IF d.err # NoErr
       THEN Outcome(i.w, d.err, d.db, cs)
       ELSE Outcome(WriteJSON(i.w, 200, EncodeDeleted(i.id)), NoErr, d.db, cs)

\* variant: the destination account is looked up before the echo
handleTransferLooksUp(w, body, database) ==
  LET d == DecodeTransferRequest(body)
      g == GetAccountById(database, d.v.ToAccount, TRUE)
      cs == <<Call("GetAccountById", d.v.ToAccount, TRUE)>>
  IN IF d.err # NoErr THEN Outcome(w, d.err, database, <<>>)
     ELSE IF g.err # NoErr THEN Outcome(w, g.err, database, cs)
     ELSE Outcome(WriteJSON(w, 200, EncodeTransferRequest(d.v)), NoErr, database, cs)

handleTransfer(w, body, database) ==
  LET d == DecodeTransferRequest(body)
  IN IF d.err # NoErr
       THEN Outcome(w, d.err, database, <<>>)
       ELSE Outcome(WriteJSON(w, 200, EncodeTransferRequest(d.v)), NoErr, database, <<>>)

\* handleAccount: the method switch of the collection route
handleAccount(w, r, vars, database, ok, order, now, number, ctorId, ctorTime) ==
  CASE r.method = "GET" -> handleGetAccounts(w, database, ok, order)
    [] r.method = "POST" ->
         handleCreateAccount(w, r.body, database, ok, now, number, ctorId, ctorTime)
    [] r.method = "DELETE" -> handleDeleteAccount(w, vars, database, ok)
    [] OTHER ->
         Outcome(w, Errorf("Method Is Not Allowed: %s", 0, <<r.method>>), database, <<>>)

\* makeHTTPHandlerFunc: a returned error is written as the 400 envelope
makeHTTPHandlerFunc(o) ==
  IF o.err # NoErr
    THEN [o EXCEPT !.w = WriteJSON(o.w, 400, EncodeAPIError(o.err))]
    ELSE o

(* ------------------------------ the router ---------------------------- *)

\* a path under /api/v1: /<dir> or /<dir>/<id>
CollectionPath(dir) == [dir |-> dir, hasId |-> FALSE, id |-> <<>>]
ItemPath(dir, id) == [dir |-> dir, hasId |-> TRUE, id |-> id]

\* the route table of Run, in registration order; mux answers 405 when only
\* the method of a route fails to match, and 404 when no path matches
Route(r) ==
  IF r.path = CollectionPath("account") THEN "handleAccount"
  ELSE IF r.path.dir = "account" /\ r.path.hasId /\ IsDigits(r.path.id)
    THEN (CASE r.method = "GET" -> "handleGetAccountById"
            [] r.method = "DELETE" -> "handleDeleteAccount"
            [] OTHER -> "405")
  ELSE IF r.path = CollectionPath("transfer") THEN "handleTransfer"
  ELSE "404"

\* mux.Vars(r): the variables of the matched route
Vars(r) ==
  IF Route(r) \in {"handleGetAccountById", "handleDeleteAccount"}
    THEN [k \in {"id"} |-> r.path.id]
    ELSE [k \in {} |-> <<>>]

\* mux's own answers when no handler is reached
MuxError(r) ==
  IF Route(r) = "405"
    THEN [NewResponseWriter EXCEPT !.status = 405]
    ELSE HttpError(NewResponseWriter, Errorf("404 page not found", 0, <<>>), 404)

(* ------------------------------- inputs ------------------------------- *)

DigitChars == <<"0", "1", "2", "3", "4", "5", "6", "7", "8", "9">>

RECURSIVE Itoa(_)
\* the decimal digits of n >= 0
Itoa(n) ==
  IF n < 10 THEN <<DigitChars[n + 1]>>
  ELSE Append(Itoa(n \div 10), DigitChars[(n % 10) + 1])

\* twenty nines: all digits, beyond math.MaxInt64
BigId == [i \in 1..20 |-> "9"]

\* id segments a client may put in the path: every id the sequence can hand
\* out and one beyond, a leading zero, a letter, and BigId
IdSegments ==
  {Itoa(i) : i \in 1..(MaxId + 1)} \cup {<<"0", "1">>, <<"a">>, BigId}

CreateBodies ==
  {BodyMalformed, BodyEmpty} \cup
  {JObject(("firstName" :> JStr(f)) @@ ("lastName" :> JStr(l))) :
     f \in FirstNames, l \in LastNames} \cup
  {JObject("firstName" :> JNum(5)), JObject("firstName" :> JStr("Bob"))}

\* transfer payloads with both fields and nothing else
WellFormedTransfers ==
  {JObject(("toAccount" :> JNum(t)) @@ ("amount" :> JNum(100))) : t \in {2, 9}}

TransferBodies ==
  {BodyMalformed, BodyEmpty} \cup WellFormedTransfers \cup
  {JObject("amount" :> JNum(100)),
   JObject(("toAccount" :> JStr("x")) @@ ("amount" :> JNum(100))),
   JObject(("toAccount" :> JNum(2)) @@ ("amount" :> JNum(100)) @@
           ("fromAccount" :> JNum(1)))}

\* what the constructor may leave in Account.ID: the zero value or a number
\* of its own drawing
CtorIds == {0, 2}

Request(method, path, body) == [method |-> method, path |-> path, body |-> body]
NoRequest == Request("", CollectionPath(""), BodyEmpty)

(* -------------------------------- state ------------------------------- *)

VARIABLES
  db,        \* the accounts table: rows by id, and the last value of the id sequence
  req,       \* the request served last
  resp,      \* the response to it
  handler,   \* the handler the router chose for it ("404"/"405": none)
  herr,      \* the error that handler returned
  calls,     \* the storage calls made while serving it
  inserted,  \* history: per id handed out, the column values sent with the INSERT
  created,   \* history: ids created since the last executed delete
  deleted    \* history: ids that were in the table when a delete of them executed

vars == <<db, req, resp, handler, herr, calls, inserted, created, deleted>>

Init ==
  /\ db = [rows |-> [i \in {} |-> 0], serial |-> 0]
  /\ req = NoRequest
  /\ resp = NewResponseWriter
  /\ handler = "none"
  /\ herr = NoErr
  /\ calls = <<>>
  /\ inserted = <<>>
  /\ created = {}
  /\ deleted = {}

ExecutedDeletes(cs) ==
  {cs[i].id : i \in {j \in 1..Len(cs) : cs[j].op = "DeleteAccount" /\ cs[j].ok}}

ExecutedCreate(cs) ==
  \E i \in 1..Len(cs) : cs[i].op = "CreateAccount" /\ cs[i].ok

\* the column values an executed INSERT carried for account a at time now
Sent(a, now) ==
  [first_name |-> a.FirstName, last_name |-> a.LastName, number |-> a.Number,
   balance |-> a.Balance, create_at |-> now]

\* serving request r through handler h with outcome o; now is the database
\* clock reading of the step
Served(r, h, o, now) ==
  /\ req' = r
  /\ handler' = h
  /\ db' = o.db
  /\ resp' = o.w
  /\ herr' = o.err
  /\ calls' = o.calls
  /\ inserted' = IF ExecutedCreate(o.calls)
                   THEN Append(inserted, Sent(o.w.body[1].account, now))
                   ELSE inserted
  /\ created' = IF ExecutedDeletes(o.calls) # {} THEN {}
                ELSE IF ExecutedCreate(o.calls) THEN created \cup {db.serial + 1}
                ELSE created
  /\ deleted' = deleted \cup (ExecutedDeletes(o.calls) \cap DOMAIN db.rows)

AnyOrder == CHOOSE o \in RowOrders(db) : TRUE
AnyTime == CHOOSE t \in Times : TRUE
AnyNumber == CHOOSE n \in Numbers : TRUE

(* ------------------------------- actions ------------------------------ *)

\* GET /api/v1/account
ServeGetAccounts ==
  \E ok \in BOOLEAN, order \in RowOrders(db) :
    LET r == Request("GET", CollectionPath("account"), BodyEmpty)
    IN Served(r, Route(r),
              makeHTTPHandlerFunc(handleAccount(NewResponseWriter, r, Vars(r), db,
                                                ok, order, AnyTime, AnyNumber, 0, ZeroTime)),
              AnyTime)

\* POST /api/v1/account
ServeCreateAccount ==
  \E body \in CreateBodies, ok \in BOOLEAN, now \in Times, number \in Numbers,
     ctorId \in CtorIds :
    \E ctorTime \in {ZeroTime, now} :
      LET r == Request("POST", CollectionPath("account"), body)
      IN /\ db.serial < MaxId
         /\ Served(r, Route(r),
                   makeHTTPHandlerFunc(handleAccount(NewResponseWriter, r, Vars(r), db,
                                                     ok, AnyOrder, now, number, ctorId, ctorTime)),
                   now)

\* DELETE, PUT, ... /api/v1/account
ServeAccountOther ==
  \E method \in Methods \ {"GET", "POST"}, ok \in BOOLEAN :
    LET r == Request(method, CollectionPath("account"), BodyEmpty)
    IN Served(r, Route(r),
              makeHTTPHandlerFunc(handleAccount(NewResponseWriter, r, Vars(r), db,
                                                ok, AnyOrder, AnyTime, AnyNumber, 0, ZeroTime)),
              AnyTime)

\* GET /api/v1/account/{id:[0-9]+}
ServeGetAccountById ==
  \E id \in IdSegments, ok \in BOOLEAN :
    LET r == Request("GET", ItemPath("account", id), BodyEmpty)
    IN /\ Route(r) = "handleGetAccountById"
       /\ Served(r, Route(r),
                 makeHTTPHandlerFunc(handleGetAccountById(NewResponseWriter, Vars(r), db, ok)),
                 AnyTime)

\* DELETE /api/v1/account/{id:[0-9]+}
ServeDeleteAccount ==
  \E id \in IdSegments, ok \in BOOLEAN :
    LET r == Request("DELETE", ItemPath("account", id), BodyEmpty)
    IN /\ Route(r) = "handleDeleteAccount"
       /\ Served(r, Route(r),
                 makeHTTPHandlerFunc(handleDeleteAccount(NewResponseWriter, Vars(r), db, ok)),
                 AnyTime)

\* POST /api/v1/transfer (both copies of the route table send it to
\* handleTransfer; they differ only for other methods, which are not drawn)
ServeTransfer ==
  \E body \in TransferBodies :
    LET r == Request("POST", CollectionPath("transfer"), body)
    IN /\ Route(r) = "handleTransfer"
       /\ Served(r, Route(r),
                 makeHTTPHandlerFunc(handleTransfer(NewResponseWriter, body, db)),
                 AnyTime)

\* a request no route takes: mux answers it, no handler runs
ServeUnrouted ==
  \E method \in Methods, id \in {<<"1">>, <<"a">>} :
    LET r == Request(method, ItemPath("account", id), BodyEmpty)
    IN /\ Route(r) \in {"404", "405"}
       /\ Served(r, Route(r), Outcome(MuxError(r), NoErr, db, <<>>), AnyTime)

\* Storage.UpdateAccount, called on the storage interface (no route calls it)
CallUpdateAccount ==
  \E id \in DOMAIN db.rows, balance \in {0, 50} :
    LET account == [scanIntoAccount(db.rows[id]) EXCEPT !.Balance = balance]
        u == UpdateAccount(db, account)
    IN Served(NoRequest, "none",
              Outcome(NewResponseWriter, u.err, u.db,
                      <<Call("UpdateAccount", account.ID, TRUE)>>),
              AnyTime)

Next ==
  \/ ServeGetAccounts
  \/ ServeCreateAccount
  \/ ServeAccountOther
  \/ ServeGetAccountById
  \/ ServeDeleteAccount
  \/ ServeTransfer
  \/ ServeUnrouted
  \/ CallUpdateAccount

Spec == Init /\ [][Next]_vars

(* ---------------------------- vocabulary ------------------------------ *)

\* the generic error envelope: status 400 and the one JSON body {"error": e}
Envelope(e) ==
  [status |-> 400, contentType |-> "application/json", body |-> <<[error |-> e]>>]

\* a success answer: one JSON value under the given status
Success(status, data) ==
  [status |-> status, contentType |-> "application/json", body |-> <<data>>]

NotFound(id) == Errorf("account %d not found", id, <<>>)

\* requests, as a client writes them
GetById(id) == Request("GET", ItemPath("account", Itoa(id)), BodyEmpty)
DeleteById(id) == Request("DELETE", ItemPath("account", Itoa(id)), BodyEmpty)
ListAll == Request("GET", CollectionPath("account"), BodyEmpty)

\* ids a client may name
Ids == 1..(MaxId + 1)

\* the database executed every statement of the request served last
StatementsRan(cs) == \A i \in 1..Len(cs) : cs[i].ok

\* the rows of the table other than id are the same before and after
OthersKept(before, after, id) ==
  \A j \in (DOMAIN before.rows) \ {id} :
    j \in DOMAIN after.rows /\ after.rows[j] = before.rows[j]

(* -------------------------------- C1 ---------------------------------- *)

CreateAnswered ==
  /\ req.method = "POST"
  /\ req.path = CollectionPath("account")
  /\ resp.status = 201

\* C1: the record in the 201 answer of a create has id > 0, balance 0 and a
\* set timestamp, and a GET of that id right after it answers 200 with the
\* identical record.
C1_CreateThenGet ==
  [][ /\ CreateAnswered' =>
           LET a == resp'.body[1].account
           IN a.ID > 0 /\ a.Balance = 0 /\ a.CreatedAt # ZeroTime
      /\ ( /\ CreateAnswered
           /\ resp.body[1].account.ID >= 0
           /\ req' = GetById(resp.body[1].account.ID)
           /\ StatementsRan(calls') )
         => resp' = Success(200, resp.body[1]) ]_vars

(* -------------------------------- C2 ---------------------------------- *)

\* C2: once a delete of a stored id has executed, the id is in no later
\* listing, every later GET of it is answered not-found, no later create is
\* given that id, and the delete leaves every other row as it was.
C2_DeletedStaysGone ==
  [][ /\ deleted' \cap DOMAIN db'.rows = {}
      /\ (req' = ListAll /\ StatementsRan(calls')) =>
           /\ resp'.status = 200
           /\ \A i \in 1..Len(resp'.body[1].accounts) :
                resp'.body[1].accounts[i].ID \notin deleted'
      /\ \A id \in deleted' :
           (req' = GetById(id) /\ StatementsRan(calls')) => resp' = Envelope(NotFound(id))
      /\ \A id \in DOMAIN db.rows :
           (req' = DeleteById(id) /\ StatementsRan(calls')) =>
             /\ id \in deleted'
             /\ resp' = Success(200, [deleted |-> id])
             /\ OthersKept(db, db', id)
             /\ db'.serial = db.serial ]_vars

\* a GET of a deleted id was answered while other accounts are stored
C2_Witness ==
  /\ \E id \in deleted : req = GetById(id) /\ StatementsRan(calls)
  /\ DOMAIN db.rows # {}
  /\ db.serial = MaxId

(* -------------------------------- C3 ---------------------------------- *)

C4_GetAbsent ==
  [][ \A id \in Ids :
        (req' = GetById(id) /\ id \notin DOMAIN db.rows /\ StatementsRan(calls')) =>
          /\ resp' = Envelope(NotFound(id))
          /\ db' = db ]_vars

\* a GET of a never-created id was answered after some id was deleted
C4_Witness ==
  /\ \E id \in Ids : req = GetById(id) /\ id > db.serial /\ StatementsRan(calls)
  /\ deleted # {}
  /\ DOMAIN db.rows # {}

(* -------------------------------- C5 ---------------------------------- *)

\* C5: a GET or DELETE of /api/v1/account/{id} whose id segment is not
\* numeric is answered with status 400.
C5_NonNumericIs400 ==
  ( /\ req.method \in {"GET", "DELETE"}
    /\ req.path.dir = "account"
    /\ req.path.hasId
    /\ \E i \in 1..Len(req.path.id) : req.path.id[i] \notin Digit )
  => resp.status = 400

(* -------------------------------- C6 ---------------------------------- *)

\* a payload with exactly the two transfer fields, both numbers
WellFormedTransfer(body) ==
  /\ body.kind = "object"
  /\ DOMAIN body.fields = {"toAccount", "amount"}
  /\ \A k \in DOMAIN body.fields : body.fields[k].t = "num"

TransferPosted(r) ==
  r.method = "POST" /\ r.path = CollectionPath("transfer")

\* C6: POST /api/v1/transfer with a well-formed payload answers 200 with a
\* body equal to the payload and touches nothing: no storage call, the same
\* rows with the same balances, whether or not the account ids exist.
C6_TransferEchoes ==
  [][ (TransferPosted(req') /\ WellFormedTransfer(req'.body)) =>
        /\ resp' = Success(200, req'.body)
        /\ calls' = <<>>
        /\ db' = db ]_vars

\* a transfer to an account id that is not stored was answered, rows being
\* stored
C6_Witness ==
  /\ TransferPosted(req)
  /\ WellFormedTransfer(req.body)
  /\ req.body.fields["toAccount"].n \notin DOMAIN db.rows
  /\ DOMAIN db.rows # {}
  /\ resp.status = 200

(* -------------------------------- C7 ---------------------------------- *)

\* C7: every error a handler returns is answered as status 400 with the one
\* JSON body {"error": <message>}: no other status, no other body shape, no
\* success body along with it.
C7_ErrorsAreEnvelopes ==
  herr # NoErr => resp = Envelope(herr)

(* -------------------------------- C8 ---------------------------------- *)

MalformedPosted(r) ==
  /\ r.method = "POST"
  /\ r.path \in {CollectionPath("account"), CollectionPath("transfer")}
  /\ r.body.kind = "malformed"

\* C8: a POST of malformed JSON to the create-account or transfer route
\* answers 400 with a non-empty error message, the handler having made no
\* storage call: no account is created and the table is as it was.
C8_MalformedBody ==
  [][ MalformedPosted(req') =>
        /\ herr'.text # ""
        /\ resp' = Envelope(herr')
        /\ calls' = <<>>
        /\ db' = db
        /\ inserted' = inserted ]_vars

\* malformed JSON was posted to the create route while ids were still to be
\* handed out and rows were stored
C8_Witness ==
  /\ MalformedPosted(req)
  /\ req.path = CollectionPath("account")
  /\ DOMAIN db.rows # {}
  /\ db.serial < MaxId

(* -------------------------------- C9 ---------------------------------- *)

\* the account a row inserted under id reads back as
AsInserted(id) ==
  [ID |-> id, FirstName |-> inserted[id].first_name,
   LastName |-> inserted[id].last_name, Number |-> inserted[id].number,
   Balance |-> inserted[id].balance, CreatedAt |-> inserted[id].create_at]

\* C9: after N executed creates with no delete in between, an executed
\* listing answers 200 with at least N records and holds each of the N
\* created accounts exactly once, in any order; listing and get-by-id leave
\* the table as it was.
C9_ListHoldsCreated ==
  [][ /\ (req' = ListAll /\ StatementsRan(calls')) =>
           LET accs == resp'.body[1].accounts
           IN /\ resp'.status = 200
              /\ Len(resp'.body) = 1
              /\ Len(accs) >= Cardinality(created')
              /\ \A id \in created' :
                   /\ Cardinality({i \in 1..Len(accs) : accs[i].ID = id}) = 1
                   /\ \E i \in 1..Len(accs) : accs[i] = AsInserted(id)'
      /\ (req' = ListAll \/ handler' = "handleGetAccountById") => db' = db ]_vars

\* a listing was answered after two creates with no delete since, an older
\* row being stored too
C9_Witness ==
  /\ req = ListAll
  /\ StatementsRan(calls)
  /\ Cardinality(created) >= 2
  /\ Cardinality(DOMAIN db.rows) > Cardinality(created)

(* -------------------------------- C10 --------------------------------- *)

UpdateCalled(cs) == \E i \in 1..Len(cs) : cs[i].op = "UpdateAccount"

\* C10: after any sequence of operations every stored account has balance 0
\* and the column values it was inserted with; no step changes a row that
\* stays stored, and UpdateAccount returns no error and leaves the table as
\* it was.
C10_AccountsNeverMutated ==
  [][ /\ \A id \in DOMAIN db'.rows :
           /\ db'.rows[id].balance = 0
           /\ scanIntoAccount(db'.rows[id]) = AsInserted(id)'
      /\ \A id \in (DOMAIN db.rows) \cap (DOMAIN db'.rows) : db'.rows[id] = db.rows[id]
      /\ UpdateCalled(calls') => (herr' = NoErr /\ db' = db) ]_vars

\* UpdateAccount was called on a table of two or more rows after a delete
C10_Witness ==
  /\ UpdateCalled(calls)
  /\ Cardinality(DOMAIN db.rows) >= 2
  /\ deleted # {}

(* -------------------------------- C11 --------------------------------- *)

\* the requests on which getId's conversion fails: an all-digit id beyond
\* the int range on an item route, or a DELETE on the collection route,
\* whose route has no id variable
ConversionFails(r) ==
  \/ /\ r.path = CollectionPath("account")
     /\ r.method = "DELETE"
  \/ /\ r.path.dir = "account"
     /\ r.path.hasId
     /\ r.method \in {"GET", "DELETE"}
     /\ IsDigits(r.path.id)
     /\ OutOfRange(r.path.id)

\* the inline answer of getId for the id text of request r, and nothing else
InlineInvalidId(r) ==
  [status |-> 400, contentType |-> "text/plain",
   body |-> <<[text |-> Errorf("Invalid ID: %s", 0, r.path.id)]>>]

\* C11: whenever the conversion in getId fails, the request is answered by
\* the inline plain-text 400 alone: no storage call is made (none with id
\* -1), and neither the JSON envelope nor {"deleted": -1} follows it.
C11_InvalidIdStopsHandler ==
  ConversionFails(req) => (resp = InlineInvalidId(req) /\ calls = <<>>)

====
